---- MODULE Spec2Model ----
(***************************************************************************)
(* State-machine model of unmute/unmute_ros_bridge_client.py: run_bridge,  *)
(* the supervisor loop that opens the laptop (robot-side) and the unmute   *)
(* (speech-side) websocket, runs the two forwarding coroutines under       *)
(* asyncio.gather, and on any Exception logs, sleeps 3 seconds and retries.*)
(*                                                                         *)
(* Tasks are asyncio coroutines: a step of the model is the code between   *)
(* two suspension points (connect, recv, send, close, sleep, gather).      *)
(***************************************************************************)
EXTENDS Integers, Sequences, FiniteSets, TLC

VARIABLES
    sup,      \* position of run_bridge (the supervisor coroutine)
    exc,      \* the exception run_bridge is unwinding with / has caught ("none" if none)
    timer,    \* time units left of the pending asyncio.sleep
    waited,   \* time units elapsed since the pending asyncio.sleep began
    ws,       \* state of each websocket object: laptop_ws, unmute_ws
    inq,      \* frames received on each websocket and not yet delivered by recv
    arrived,  \* number of frames the peers have sent in this supervisor iteration
    pc,       \* position of each forwarding coroutine
    message,  \* loop variable `message` of each forwarding coroutine
    outmsg,   \* the argument of the pending send() of each forwarding coroutine
    logged,   \* what each forwarding coroutine passed to logger.error since its last recv
    sent,     \* frames sent on each websocket inside its `async with`, in order
    wire      \* frames the peer has sent on each websocket inside its `async with`, in order

vars == <<sup, exc, timer, waited, ws, inq, arrived, pc, message, outmsg, logged, sent, wire>>

(***************************************************************************)
(* Bounds of the model.                                                    *)
(***************************************************************************)
\* frames the two peers send, in total, within one supervisor iteration
MaxMsgs == 2

(***************************************************************************)
(* Program constants.                                                      *)
(***************************************************************************)
\* asyncio.sleep(3)
BackoffDelay == 3

\* the two websockets
Sides == {"laptop", "unmute"}

\* the two forwarding coroutines: forward_audio_to_unmute, forward_response_to_laptop
Loops == {"audio", "response"}

\* `async for message in laptop_ws` / `async for message in unmute_ws`
Source(l) == IF l = "audio" THEN "laptop" ELSE "unmute"

\* Dest, had each coroutine sent on the websocket it reads
Dest_Echo(l) == IF l = "audio" THEN "laptop" ELSE "unmute"

\* `await unmute_ws.send(...)` / `await laptop_ws.send(...)`
Dest(l) == IF l = "audio" THEN "unmute" ELSE "laptop"

Other(l) == IF l = "audio" THEN "response" ELSE "audio"

\* audio payloads and text deltas
Payloads == {"a", "b"}

None == [text |-> "none"]

(***************************************************************************)
(* Wire frames.  A frame is the text of one websocket message; a frame     *)
(* whose text is JSON carries the value it decodes to.                     *)
(***************************************************************************)
Garbage == [text |-> "garbage"]

JsonArray == [text |-> "json", value |-> [kind |-> "array"]]

JsonObject(d) == [text |-> "json", value |-> [kind |-> "object", dict |-> d]]

\* the frames the peers may put on the wire
Frames ==
    {Garbage, JsonArray}
    \cup {JsonObject([type |-> "audio", data |-> p]) : p \in Payloads}
    \cup {JsonObject([type |-> "response.audio.delta", delta |-> "a"]),
          JsonObject([type |-> "response.text.delta", delta |-> "b"])}
    \cup {JsonObject([type |-> t]) : t \in {"audio", "response.audio.delta", "other"}}
    \cup {JsonObject([data |-> "a"])}

\* a smaller alphabet, for the specifications that check the supervisor's progress
CtlFrames ==
    {Garbage,
     JsonObject([type |-> "audio", data |-> "a"]),
     JsonObject([type |-> "response.text.delta", delta |-> "b"])}

(***************************************************************************)
(* json.loads and json.dumps.  Decoding fails on a frame that is not JSON; *)
(* a decoded value is a dict only when the JSON text is an object.         *)
(***************************************************************************)
json_loads(frame) ==
    IF frame.text = "json"
    THEN [ok |-> TRUE, value |-> frame.value]
    ELSE [ok |-> FALSE, error |-> "JSONDecodeError"]

json_dumps(d) == [text |-> "json", value |-> [kind |-> "object", dict |-> d]]

\* Get, had a missing key defaulted to "audio"
Get_DefaultAudio(d, key) == IF key \in DOMAIN d THEN d[key] ELSE "audio"

\* dict.get(key): the value, or Python's None when the key is absent
Get(d, key) == IF key \in DOMAIN d THEN d[key] ELSE "None"

Skip == [result |-> "skip"]

Error(e) == [result |-> "error", error |-> e]

DoSend(frame) == [result |-> "send", frame |-> frame]

\* AudioTry, had it read the payload with data.get("data")
AudioTry_DefaultsMissing(msg) ==
    LET r == json_loads(msg) IN
    IF ~r.ok THEN Error(r.error)
    ELSE IF r.value.kind # "object" THEN Error("AttributeError")
    ELSE LET data == r.value.dict IN
         IF Get(data, "type") = "audio"
         THEN DoSend(json_dumps(
                  [type |-> "unmute.input_audio_buffer.append_pcm",
                   audio |-> Get(data, "data"),
                   format |-> "int16"]))
         ELSE Skip

\* AudioTry, had it used the stock event type instead of the custom one
AudioTry_StockEvent(msg) ==
    LET r == json_loads(msg) IN
    IF ~r.ok THEN Error(r.error)
    ELSE IF r.value.kind # "object" THEN Error("AttributeError")
    ELSE LET data == r.value.dict IN
         IF Get(data, "type") = "audio"
         THEN IF "data" \notin DOMAIN data THEN Error("KeyError")
              ELSE DoSend(json_dumps(
                       [type |-> "input_audio_buffer.append",
                        audio |-> data["data"]]))
         ELSE Skip

(***************************************************************************)
(* The body of the `try` of forward_audio_to_unmute, up to its send():     *)
(* what the iteration does with one received message.                      *)
(***************************************************************************)
AudioTry(msg) ==
    LET r == json_loads(msg) IN
    IF ~r.ok THEN Error(r.error)
    ELSE IF r.value.kind # "object" THEN Error("AttributeError")
    ELSE LET data == r.value.dict IN
         IF Get(data, "type") = "audio"
         THEN IF "data" \notin DOMAIN data THEN Error("KeyError")
              ELSE DoSend(json_dumps(
                       [type |-> "unmute.input_audio_buffer.append_pcm",
                        audio |-> data["data"],
                        format |-> "int16"]))
         ELSE Skip

\* ResponseTry, had the text branch been copied from the audio branch
\* without renaming its payload key
ResponseTry_TextUnderAudio(msg) ==
    LET r == json_loads(msg) IN
    IF ~r.ok THEN Error(r.error)
    ELSE IF r.value.kind # "object" THEN Error("AttributeError")
    ELSE LET data == r.value.dict
             msg_type == Get(data, "type") IN
         IF msg_type = "response.audio.delta"
         THEN IF "delta" \notin DOMAIN data THEN Error("KeyError")
              ELSE DoSend(json_dumps(
                       [type |-> "robot.voice_audio", audio |-> data["delta"]]))
         ELSE IF msg_type = "response.text.delta"
         THEN IF "delta" \notin DOMAIN data THEN Error("KeyError")
              ELSE DoSend(json_dumps(
                       [type |-> "robot.text", audio |-> data["delta"]]))
         ELSE Skip

(***************************************************************************)
(* The body of the `try` of forward_response_to_laptop, up to its send().  *)
(***************************************************************************)
ResponseTry(msg) ==
    LET r == json_loads(msg) IN
    IF ~r.ok THEN Error(r.error)
    ELSE IF r.value.kind # "object" THEN Error("AttributeError")
    ELSE LET data == r.value.dict
             msg_type == Get(data, "type") IN
         IF msg_type = "response.audio.delta"
         THEN IF "delta" \notin DOMAIN data THEN Error("KeyError")
              ELSE DoSend(json_dumps(
                       [type |-> "robot.voice_audio", audio |-> data["delta"]]))
         ELSE IF msg_type = "response.text.delta"
         THEN IF "delta" \notin DOMAIN data THEN Error("KeyError")
              ELSE DoSend(json_dumps(
                       [type |-> "robot.text", text |-> data["delta"]]))
         ELSE Skip

\* TryBody, had each loop applied the translations of both directions
TryBody_SideBlind(l, msg) ==
    IF AudioTry(msg).result = "send" THEN AudioTry(msg) ELSE ResponseTry(msg)

TryBody(l, msg) == IF l = "audio" THEN AudioTry(msg) ELSE ResponseTry(msg)

(***************************************************************************)
(* Initial state: run_bridge has just entered `while True`.                *)
(***************************************************************************)
Init ==
    /\ sup = "connect_laptop"
    /\ exc = "none"
    /\ timer = 0
    /\ waited = 0
    /\ ws = [s \in Sides |-> "none"]
    /\ inq = [s \in Sides |-> <<>>]
    /\ arrived = 0
    /\ pc = [l \in Loops |-> "idle"]
    /\ message = [l \in Loops |-> None]
    /\ outmsg = [l \in Loops |-> None]
    /\ logged = [l \in Loops |-> "none"]
    /\ sent = [s \in Sides |-> <<>>]
    /\ wire = [s \in Sides |-> <<>>]

(***************************************************************************)
(* Helpers of the supervisor.                                              *)
(***************************************************************************)
\* Closed, had __aexit__ left the connection as it found it
Closed_Leak(state) == state

\* a websocket after `await close()`, which __aexit__ of `async with` calls:
\* an open connection is closed normally (code 1000); a connection the peer
\* already closed keeps the way it was closed
Closed(state) == IF state = "open" THEN "closed" ELSE state

\* Except, had the handler gone round the `while` without sleeping
Except_NoSleep(e) ==
    /\ sup' = "connect_laptop"
    /\ exc' = "none"
    /\ timer' = 0
    /\ waited' = 0

\* Except, had the handler slept one time unit less
Except_ShortSleep(e) ==
    /\ sup' = "sleep"
    /\ exc' = e
    /\ timer' = BackoffDelay - 1
    /\ waited' = 0

\* `except Exception as e:` two log lines, then `await asyncio.sleep(3)` begins
Except(e) ==
    /\ sup' = "sleep"
    /\ exc' = e
    /\ timer' = BackoffDelay
    /\ waited' = 0

\* Catches, had CancelledError been an Exception (as before Python 3.8) or
\* the handler been `except BaseException`
Catches_Everything(e) == e # "none"

\* what `except Exception` catches: the connect and connection errors, not
\* asyncio.CancelledError, which is a BaseException
Catches(e) == e \notin {"none", "CancelledError"}

\* a forwarding coroutine that has started and not finished
Running(l) == pc[l] \in {"recv", "try", "send"}

\* an exception no handler catches leaves run_bridge; asyncio.run then
\* cancels the coroutines that are still running and returns
Uncaught(e) ==
    /\ sup' = "cancelled"
    /\ exc' = e
    /\ pc' = [l \in Loops |-> IF Running(l) THEN "cancelled" ELSE pc[l]]
    /\ UNCHANGED <<timer, waited>>

\* an exception raised inside the `try` of run_bridge
Raise(e) == IF Catches(e) THEN Except(e) /\ UNCHANGED pc ELSE Uncaught(e)

\* the next iteration of `while True` when the `try` ended without exception
NextIteration ==
    /\ sup' = "connect_laptop"
    /\ UNCHANGED <<exc, timer, waited>>

\* a forwarding coroutine that can run now: it is not suspended in a recv()
\* that has neither a message to deliver nor a closed connection to report
Runnable(l) ==
    \/ pc[l] \in {"try", "send"}
    \/ pc[l] = "recv" /\ (inq[Source(l)] # <<>> \/ ws[Source(l)] # "open")

(***************************************************************************)
(* run_bridge, the supervisor.                                             *)
(***************************************************************************)
\* ConnectLaptop, had gather been started inside the first `async with`
ConnectLaptop_ThenGather ==
    /\ sup = "connect_laptop"
    /\ \/ /\ sup' = "gather"
          /\ ws' = [ws EXCEPT !["laptop"] = "open"]
          /\ inq' = [inq EXCEPT !["laptop"] = <<>>]
          /\ sent' = [sent EXCEPT !["laptop"] = <<>>]
          /\ wire' = [wire EXCEPT !["laptop"] = <<>>]
          /\ arrived' = 0
          /\ pc' = [l \in Loops |-> "recv"]
          /\ UNCHANGED <<exc, timer, waited>>
       \/ /\ Except("connect_laptop_failed")
          /\ UNCHANGED <<ws, inq, sent, wire, arrived, pc>>
    /\ UNCHANGED <<message, outmsg, logged>>

\* `async with websockets.connect(LAPTOP_WS_URL) as laptop_ws`
ConnectLaptop ==
    /\ sup = "connect_laptop"
    /\ \/ /\ sup' = "connect_unmute"
          /\ ws' = [ws EXCEPT !["laptop"] = "open"]
          /\ inq' = [inq EXCEPT !["laptop"] = <<>>]
          /\ sent' = [sent EXCEPT !["laptop"] = <<>>]
          /\ wire' = [wire EXCEPT !["laptop"] = <<>>]
          /\ arrived' = 0
          /\ UNCHANGED <<exc, timer, waited, pc>>
       \/ /\ Raise("connect_laptop_failed")
          /\ UNCHANGED <<ws, inq, sent, wire, arrived>>
    /\ UNCHANGED <<message, outmsg, logged>>

\* `async with websockets.connect(UNMUTE_WS_URL, ...) as unmute_ws`; on success
\* the two coroutines are defined and handed to asyncio.gather
ConnectUnmute ==
    /\ sup = "connect_unmute"
    /\ \/ /\ sup' = "gather"
          /\ ws' = [ws EXCEPT !["unmute"] = "open"]
          /\ inq' = [inq EXCEPT !["unmute"] = <<>>]
          /\ sent' = [sent EXCEPT !["unmute"] = <<>>]
          /\ wire' = [wire EXCEPT !["unmute"] = <<>>]
          /\ pc' = [l \in Loops |-> "recv"]
          /\ message' = [l \in Loops |-> None]
          /\ outmsg' = [l \in Loops |-> None]
          /\ logged' = [l \in Loops |-> "none"]
          /\ UNCHANGED exc
       \/ /\ sup' = "exit_laptop"
          /\ exc' = "connect_unmute_failed"
          /\ UNCHANGED <<ws, inq, sent, wire, pc, message, outmsg, logged>>
    /\ UNCHANGED <<timer, waited, arrived>>

\* `await asyncio.gather(...)` raises the first exception one of its
\* coroutines raises; the other coroutine is left running
GatherRaise ==
    /\ sup = "gather"
    /\ \E l \in Loops : pc[l] = "raised"
    /\ sup' = "exit_unmute"
    /\ exc' = "ConnectionClosedError"
    /\ UNCHANGED <<timer, waited, ws, inq, arrived, pc, message, outmsg, logged, sent, wire>>

\* `await asyncio.gather(...)` returns when both coroutines have returned
GatherReturn ==
    /\ sup = "gather"
    /\ \A l \in Loops : pc[l] = "returned"
    /\ sup' = "exit_unmute"
    /\ UNCHANGED <<exc, timer, waited, ws, inq, arrived, pc, message, outmsg, logged, sent, wire>>

\* leaving the inner `async with`: unmute_ws is closed
ExitUnmute ==
    /\ sup = "exit_unmute"
    /\ sup' = "exit_laptop"
    /\ ws' = [ws EXCEPT !["unmute"] = Closed(@)]
    /\ UNCHANGED <<exc, timer, waited, inq, arrived, pc, message, outmsg, logged, sent, wire>>

\* leaving the outer `async with`: laptop_ws is closed; a pending exception
\* then reaches `except Exception`, otherwise the `while` loop goes round
ExitLaptop ==
    /\ sup = "exit_laptop"
    /\ ws' = [ws EXCEPT !["laptop"] = Closed(@)]
    /\ IF exc = "none" THEN NextIteration /\ UNCHANGED pc ELSE Raise(exc)
    /\ sent' = [s \in Sides |-> <<>>]
    /\ wire' = [s \in Sides |-> <<>>]
    /\ arrived' = 0
    /\ UNCHANGED <<inq, message, outmsg, logged>>

\* one time unit of `await asyncio.sleep(3)` passes; the event loop runs every
\* coroutine that is ready before it waits for the timer
Tick ==
    /\ sup = "sleep"
    /\ timer > 0
    /\ \A l \in Loops : ~Runnable(l)
    /\ timer' = timer - 1
    /\ waited' = waited + 1
    /\ UNCHANGED <<sup, exc, ws, inq, arrived, pc, message, outmsg, logged, sent, wire>>

\* Wake, had the `except` block returned from run_bridge instead of looping
Wake_GiveUp ==
    /\ sup = "sleep"
    /\ timer = 0
    /\ sup' = "returned"
    /\ UNCHANGED <<exc, timer, waited, ws, inq, arrived, pc, message, outmsg, logged, sent, wire>>

\* asyncio.sleep(3) returns: the `except` block ends, `while True` goes round
Wake ==
    /\ sup = "sleep"
    /\ timer = 0
    /\ sup' = "connect_laptop"
    /\ exc' = "none"
    /\ waited' = 0
    /\ UNCHANGED <<timer, ws, inq, arrived, pc, message, outmsg, logged, sent, wire>>

(***************************************************************************)
(* External cancellation: asyncio.run cancels the task of run_bridge       *)
(* (SIGINT, shutdown), which raises asyncio.CancelledError at the await    *)
(* where run_bridge is suspended.                                          *)
(***************************************************************************)
\* a forwarding coroutine when the gather that awaits it is cancelled: the
\* CancelledError is raised at its await; inside the `try` (the send) it
\* passes the per-message handler unless that handler catches it
Cancelled(l) ==
    IF ~Running(l) THEN pc[l]
    ELSE IF pc[l] \in {"try", "send"} /\ Catches("CancelledError") THEN "recv"
    ELSE "cancelled"

Cancel ==
    /\ sup # "cancelled"
    /\ exc # "CancelledError"
    /\ CASE sup = "connect_laptop" ->
               \* raised by the connect, inside the `try`
               Raise("CancelledError")
         [] sup = "connect_unmute" ->
               \* raised by the connect, inside `async with ... as laptop_ws`
               /\ sup' = "exit_laptop"
               /\ exc' = "CancelledError"
               /\ UNCHANGED <<timer, waited, pc>>
         [] sup = "gather" ->
               \* gather cancels both coroutines and raises CancelledError
               /\ sup' = "exit_unmute"
               /\ exc' = "CancelledError"
               /\ pc' = [l \in Loops |-> Cancelled(l)]
               /\ UNCHANGED <<timer, waited>>
         [] sup \in {"exit_unmute", "exit_laptop"} ->
               \* raised by the close() of an __aexit__: it replaces the
               \* exception being unwound, the closing goes on
               /\ exc' = "CancelledError"
               /\ UNCHANGED <<sup, timer, waited, pc>>
         [] sup = "sleep" ->
               \* raised by asyncio.sleep, inside the `except` block
               Uncaught("CancelledError")
    /\ UNCHANGED <<ws, inq, arrived, message, outmsg, logged, sent, wire>>

(***************************************************************************)
(* The forwarding coroutines.                                              *)
(***************************************************************************)
\* RecvClosed, had the iteration ended quietly on every kind of close
RecvClosed_ErrorEndsQuietly(state) ==
    CASE state \in {"peer_err", "peer_ok", "closed"} -> "returned"
      [] OTHER -> "recv"

\* what `async for message in ws` does when no message is queued: it waits
\* while the connection is open, ends the iteration on ConnectionClosedOK
\* and raises ConnectionClosedError
RecvClosed(state) ==
    CASE state = "peer_err" -> "raised"
      [] state \in {"peer_ok", "closed"} -> "returned"
      [] OTHER -> "recv"

\* Recv, had it delivered the newest queued message first
Recv_NewestFirst(l) ==
    /\ pc[l] = "recv"
    /\ IF inq[Source(l)] # <<>>
       THEN /\ message' = [message EXCEPT ![l] = inq[Source(l)][Len(inq[Source(l)])]]
            /\ inq' = [inq EXCEPT ![Source(l)] = SubSeq(@, 1, Len(@) - 1)]
            /\ pc' = [pc EXCEPT ![l] = "try"]
       ELSE /\ RecvClosed(ws[Source(l)]) # "recv"
            /\ pc' = [pc EXCEPT ![l] = RecvClosed(ws[Source(l)])]
            /\ UNCHANGED <<message, inq>>
    /\ logged' = [logged EXCEPT ![l] = "none"]
    /\ UNCHANGED <<sup, exc, timer, waited, ws, arrived, outmsg, sent, wire>>

\* `async for message in <source>`: the next message, or the end of the loop
Recv(l) ==
    /\ pc[l] = "recv"
    /\ IF inq[Source(l)] # <<>>
       THEN /\ message' = [message EXCEPT ![l] = Head(inq[Source(l)])]
            /\ inq' = [inq EXCEPT ![Source(l)] = Tail(@)]
            /\ pc' = [pc EXCEPT ![l] = "try"]
       ELSE /\ RecvClosed(ws[Source(l)]) # "recv"
            /\ pc' = [pc EXCEPT ![l] = RecvClosed(ws[Source(l)])]
            /\ UNCHANGED <<message, inq>>
    /\ logged' = [logged EXCEPT ![l] = "none"]
    /\ UNCHANGED <<sup, exc, timer, waited, ws, arrived, outmsg, sent, wire>>

\* Caught, had the handler re-raised what it logged
Caught_Reraise == "raised"

\* where a forwarding coroutine goes after its `except Exception` has caught
\* and logged an exception of the `try` body: the `async for` asks for the
\* next message
Caught == "recv"

\* the `try` body up to send(): decode, look at the type, build the message;
\* an exception is caught by `except Exception` and logged
Try(l) ==
    /\ pc[l] = "try"
    /\ LET r == TryBody(l, message[l]) IN
       CASE r.result = "send" ->
              /\ outmsg' = [outmsg EXCEPT ![l] = r.frame]
              /\ pc' = [pc EXCEPT ![l] = "send"]
              /\ UNCHANGED <<message, logged>>
         [] r.result = "skip" ->
              /\ pc' = [pc EXCEPT ![l] = "recv"]
              /\ message' = [message EXCEPT ![l] = None]
              /\ UNCHANGED <<outmsg, logged>>
         [] r.result = "error" ->
              /\ pc' = [pc EXCEPT ![l] = Caught]
              /\ logged' = [logged EXCEPT ![l] = r.error]
              /\ message' = [message EXCEPT ![l] = None]
              /\ UNCHANGED outmsg
    /\ UNCHANGED <<sup, exc, timer, waited, ws, inq, arrived, sent, wire>>

\* `await <dest>.send(json.dumps(...))`: on a connection that is not open it
\* raises ConnectionClosed, inside the `try`
Send(l) ==
    /\ pc[l] = "send"
    /\ IF ws[Dest(l)] = "open"
       THEN /\ sent' = [sent EXCEPT ![Dest(l)] = Append(@, outmsg[l])]
            /\ pc' = [pc EXCEPT ![l] = "recv"]
            /\ UNCHANGED logged
       ELSE /\ pc' = [pc EXCEPT ![l] = Caught]
            /\ logged' = [logged EXCEPT ![l] = "ConnectionClosed"]
            /\ UNCHANGED sent
    /\ message' = [message EXCEPT ![l] = None]
    /\ outmsg' = [outmsg EXCEPT ![l] = None]
    /\ UNCHANGED <<sup, exc, timer, waited, ws, inq, arrived, wire>>

(***************************************************************************)
(* The peers.                                                              *)
(***************************************************************************)
\* the peer of websocket s sends frame f
PeerSend(s, f) ==
    /\ ws[s] = "open"
    /\ arrived < MaxMsgs
    /\ inq' = [inq EXCEPT ![s] = Append(@, f)]
    /\ arrived' = arrived + 1
    /\ wire' = [wire EXCEPT ![s] = Append(@, f)]
    /\ UNCHANGED <<sup, exc, timer, waited, ws, pc, message, outmsg, logged, sent>>

\* the peer of websocket s closes it: with a close handshake ("peer_ok") or
\* without one, or with an error code ("peer_err")
PeerClose(s, how) ==
    /\ ws[s] = "open"
    /\ ws' = [ws EXCEPT ![s] = how]
    /\ UNCHANGED <<sup, exc, timer, waited, inq, arrived, pc, message, outmsg, logged, sent, wire>>

Supervisor ==
    \/ ConnectLaptop
    \/ ConnectUnmute
    \/ GatherRaise
    \/ GatherReturn
    \/ ExitUnmute
    \/ ExitLaptop
    \/ Tick
    \/ Wake

Forwarding ==
    \/ \E l \in Loops : Recv(l)
    \/ \E l \in Loops : Try(l)
    \/ \E l \in Loops : Send(l)

Peers(F) ==
    \/ \E s \in Sides, f \in F : PeerSend(s, f)
    \/ \E s \in Sides, how \in {"peer_ok", "peer_err"} : PeerClose(s, how)

Next == Supervisor \/ Forwarding \/ Peers(Frames)

Spec == Init /\ [][Next]_vars

NextCtl == Supervisor \/ Forwarding \/ Peers(CtlFrames)

\* the event loop runs every coroutine that is ready; the peers owe nothing
Fairness ==
    /\ WF_vars(Supervisor)
    /\ \A l \in Loops : WF_vars(Recv(l) \/ Try(l) \/ Send(l))

FairSpec == Init /\ [][NextCtl]_vars /\ Fairness

\* the bridge with an external cancellation that may arrive at any time
NextCancel == NextCtl \/ Cancel

CancelSpec == Init /\ [][NextCancel]_vars

TypeOK ==
    /\ sup \in {"connect_laptop", "connect_unmute", "gather", "exit_unmute",
                "exit_laptop", "sleep", "cancelled"}
    /\ exc \in {"none", "connect_laptop_failed", "connect_unmute_failed",
                "ConnectionClosedError", "CancelledError"}
    /\ timer \in 0..BackoffDelay
    /\ waited \in 0..BackoffDelay
    /\ \A s \in Sides : ws[s] \in {"none", "open", "closed", "peer_ok", "peer_err"}
    /\ arrived \in 0..MaxMsgs
    /\ \A l \in Loops : pc[l] \in {"idle", "recv", "try", "send", "returned", "raised",
                                   "cancelled"}

(***************************************************************************)
(* Vocabulary of the claims.                                               *)
(***************************************************************************)
Stopped(l) == pc[l] \in {"idle", "returned", "raised"}

NoneOpen == \A s \in Sides : ws[s] # "open"

ConnectFailures == {"connect_laptop_failed", "connect_unmute_failed"}

\* loop l is leaving its `try` body with a frame that json.loads cannot decode
Unparsable(l) == pc[l] = "try" /\ message[l].text # "json"

(***************************************************************************)
(* C1.  In an active session, as soon as either forwarding loop has        *)
(* terminated (returned normally or raised), the supervisor can end the    *)
(* session: its gather completes without waiting for the sibling loop.     *)
(***************************************************************************)
C1_FirstTerminationEndsSession ==
    (sup = "gather" /\ \E l \in Loops : pc[l] \in {"returned", "raised"})
        => ENABLED (GatherRaise \/ GatherReturn)

(***************************************************************************)
(* C2.  A half-open bridge never persists: from a state of an active       *)
(* session in which one connection is no longer open while the other is,   *)
(* the session is eventually torn down, both loops stopped and both        *)
(* connections closed, whatever the surviving peer does.                   *)
(***************************************************************************)
HalfOpen ==
    /\ sup = "gather"
    /\ \E s, t \in Sides : ws[s] # "open" /\ ws[t] = "open"

TornDown == NoneOpen /\ \A l \in Loops : Stopped(l)

C2_HalfOpenNeverPersists == HalfOpen ~> TornDown

(***************************************************************************)
(* C3.  Whenever the supervisor is about to make a connection attempt,     *)
(* both forwarding loops of the earlier session have stopped and no        *)
(* connection of that session is open; the loops are still stopped when    *)
(* the speech-side connect is attempted.                                   *)
(***************************************************************************)
C3_SessionOverBeforeReconnect ==
    /\ sup \in {"connect_laptop", "connect_unmute"} => \A l \in Loops : Stopped(l)
    /\ sup = "connect_laptop" => NoneOpen

\* a new attempt after a session in which the audio loop raised while the
\* response loop was running: that loop ended on the local close of unmute_ws
C3_Witness ==
    /\ sup = "connect_laptop"
    /\ pc["audio"] = "raised"
    /\ pc["response"] = "returned"
    /\ ws["unmute"] = "closed"

(***************************************************************************)
(* C4.  When the receive of a forwarding loop fails with a transport error *)
(* during an active session (its source was closed abnormally and nothing  *)
(* is left to deliver), the loop terminates by raising, the supervisor     *)
(* ends the session with that failure and backs off, and after the backoff *)
(* it attempts to connect again.                                           *)
(***************************************************************************)
RecvFails(l) ==
    /\ sup = "gather"
    /\ pc[l] = "recv"
    /\ inq[Source(l)] = <<>>
    /\ ws[Source(l)] = "peer_err"

BackingOffAfter(e) == sup = "sleep" /\ exc = e

C4_RecvFailureEndsSessionAndRetries ==
    /\ [][\A l \in Loops : (RecvFails(l) /\ pc'[l] # "recv") => pc'[l] = "raised"]_vars
    /\ \A l \in Loops : RecvFails(l) ~> BackingOffAfter("ConnectionClosedError")
    /\ BackingOffAfter("ConnectionClosedError") ~> (sup = "connect_laptop")

\* the backoff that follows a loop's failed receive has run its course
C4_Witness ==
    /\ BackingOffAfter("ConnectionClosedError")
    /\ timer = 0
    /\ \E l \in Loops : pc[l] = "raised" /\ ws[Source(l)] = "peer_err"

(***************************************************************************)
(* C5.  When send() fails because the destination connection is not open,  *)
(* the loop that called it terminates by raising that failure; it does not *)
(* go back to receive from its source.                                     *)
(***************************************************************************)
SendFails(l) == pc[l] = "send" /\ ws[Dest(l)] # "open"

C5_SendFailureEndsLoop ==
    [][\A l \in Loops : (SendFails(l) /\ pc'[l] # "send") => pc'[l] = "raised"]_vars

(***************************************************************************)
(* C6.  The supervisor never goes from a finished session straight to a    *)
(* connection attempt: whenever it arrives at the robot-side connect, it   *)
(* arrives from the backoff delay.                                         *)
(***************************************************************************)
C6_BackoffAfterEverySession ==
    [][(sup # "connect_laptop" /\ sup' = "connect_laptop") => sup = "sleep"]_vars

(***************************************************************************)
(* C7.  A connect attempt that fails on either side is followed by the     *)
(* backoff: the failure is the exception the supervisor unwinds with, no   *)
(* connect is attempted while it is pending, and the supervisor leaves the *)
(* sleep, for the robot-side connect, only when the full BackoffDelay has  *)
(* elapsed.                                                                *)
(***************************************************************************)
C7_BackoffAfterConnectFailure ==
    [][/\ (sup = "connect_laptop" /\ sup' \notin {"connect_laptop", "connect_unmute"})
            => (exc' = "connect_laptop_failed" /\ sup' = "sleep" /\ waited' = 0)
       /\ (sup = "connect_unmute" /\ sup' \notin {"connect_unmute", "gather"})
            => exc' = "connect_unmute_failed"
       /\ (exc \in ConnectFailures /\ sup = "exit_laptop" /\ sup' # sup)
            => (exc' = exc /\ sup' = "sleep" /\ waited' = 0)
       /\ exc' \in ConnectFailures => sup' \in {"exit_laptop", "sleep"}
       /\ (sup = "sleep" /\ sup' # "sleep")
            => (sup' = "connect_laptop" /\ waited = BackoffDelay)
       /\ (sup = "sleep" /\ sup' = "sleep") => waited' \in {waited, waited + 1}
      ]_vars

\* the backoff after a failed speech-side connect has lasted BackoffDelay
C7_Witness ==
    /\ sup = "sleep"
    /\ exc = "connect_unmute_failed"
    /\ waited = BackoffDelay

(***************************************************************************)
(* C8.  While the supervisor is backing off no connection is open; in      *)
(* particular the robot-side connection established before a failed        *)
(* speech-side connect has been closed.                                    *)
(***************************************************************************)
C8_NothingOpenDuringBackoff == sup = "sleep" => NoneOpen

\* backing off after the speech-side connect failed with the robot side up
C8_Witness ==
    /\ sup = "sleep"
    /\ exc = "connect_unmute_failed"
    /\ ws["laptop"] = "closed"

(***************************************************************************)
(* C9.  The supervisor has no terminal state: after every connect failure  *)
(* and every session failure it eventually makes another connection        *)
(* attempt, however many failures came before.                             *)
(***************************************************************************)
C9_RetriesForever == [](exc # "none" => <>(sup = "connect_laptop"))

\* a connection attempt after an iteration whose speech-side connect failed,
\* itself after a session that had failed
C9_Witness ==
    /\ sup = "connect_laptop"
    /\ ws["laptop"] = "closed"
    /\ ws["unmute"] \in {"closed", "peer_ok", "peer_err"}
    /\ \E l \in Loops : pc[l] = "raised"
    /\ inq["laptop"] # <<>>

IsObject(m) == m.text = "json" /\ m.value.kind = "object"

HasKey(m, key) == key \in DOMAIN m.value.dict

\* the value of "type" in a frame that is a JSON object, "None" without one
TypeOf(m) == IF HasKey(m, "type") THEN m.value.dict.type ELSE "None"

\* loop l is leaving its `try` body with a message of a type it translates
\* that lacks the field the translation reads
MissingField(l) ==
    /\ pc[l] = "try"
    /\ IsObject(message[l])
    /\ \/ l = "audio" /\ TypeOf(message[l]) = "audio" /\ ~HasKey(message[l], "data")
       \/ /\ l = "response"
          /\ TypeOf(message[l]) \in {"response.audio.delta", "response.text.delta"}
          /\ ~HasKey(message[l], "delta")

(***************************************************************************)
(* C11.  A decodable message of a recognized type that lacks its source    *)
(* field (`data`, `delta`) never escalates: the loop logs the KeyError,    *)
(* sends nothing, and goes on to its next receive; the other loop, the     *)
(* supervisor and both connections are left as they were.                  *)
(***************************************************************************)
C11_MissingFieldIsLoggedAndSkipped ==
    [][\A l \in Loops : (MissingField(l) /\ pc'[l] # "try") =>
            /\ pc'[l] = "recv"
            /\ logged'[l] = "KeyError"
            /\ sent' = sent /\ outmsg' = outmsg
            /\ pc'[Other(l)] = pc[Other(l)]
            /\ sup' = sup /\ exc' = exc /\ ws' = ws
      ]_vars

\* both loops of an active session have logged a KeyError and wait for their
\* next message, both connections open and nothing sent
C11_Witness ==
    /\ sup = "gather"
    /\ \A l \in Loops : pc[l] = "recv" /\ logged[l] = "KeyError"
    /\ \A s \in Sides : ws[s] = "open" /\ sent[s] = <<>>

(***************************************************************************)
(* C12.  Within one direction of one session the frames sent on the        *)
(* destination are translations of frames received on the source, in the   *)
(* order in which they were received, none of them twice: what has been    *)
(* sent, followed by the pending send, is a subsequence of the             *)
(* translations of the frames the loop has taken from its source, at every *)
(* moment of the session.                                                  *)
(***************************************************************************)
RECURSIVE Translations(_, _)
Translations(l, frames) ==
    IF frames = <<>> THEN <<>>
    ELSE LET r == TryBody(l, Head(frames)) IN
         (IF r.result = "send" THEN <<r.frame>> ELSE <<>>)
             \o Translations(l, Tail(frames))

RECURSIVE IsSubseq(_, _)
IsSubseq(a, b) ==
    IF a = <<>> THEN TRUE
    ELSE IF b = <<>> THEN FALSE
    ELSE IF Head(a) = Head(b) THEN IsSubseq(Tail(a), Tail(b))
    ELSE IsSubseq(a, Tail(b))

\* the frames loop l has taken from its source connection, in arrival order
Taken(l) ==
    SubSeq(wire[Source(l)], 1, Len(wire[Source(l)]) - Len(inq[Source(l)]))

Pending(l) == IF pc[l] = "send" THEN <<outmsg[l]>> ELSE <<>>

\* the supervisor is inside both `async with` blocks
InSession == sup \in {"gather", "exit_unmute", "exit_laptop"}

C12_OrderPreservedPerDirection ==
    InSession =>
        \A l \in Loops :
            IsSubseq(sent[Dest(l)] \o Pending(l), Translations(l, Taken(l)))

\* two different audio frames have been forwarded to the speech side while
\* the opposite loop was at work on a message of its own
C12_Witness ==
    /\ Len(sent["unmute"]) = 2
    /\ sent["unmute"][1] # sent["unmute"][2]
    /\ wire["laptop"] = <<JsonObject([type |-> "audio", data |-> "b"]),
                          JsonObject([type |-> "audio", data |-> "a"])>>

(***************************************************************************)
(* C13.  A received message whose `type` is none of the three recognized   *)
(* values, or that has no `type` at all, produces no outbound frame and no *)
(* send on either connection; nothing is logged and the loop goes on to    *)
(* its next receive.                                                       *)
(***************************************************************************)
RecognizedTypes == {"audio", "response.audio.delta", "response.text.delta"}

Unrecognized(l) ==
    /\ pc[l] = "try"
    /\ IsObject(message[l])
    /\ TypeOf(message[l]) \notin RecognizedTypes

\* the step of loop l drops its message without a trace
SilentlyDropped(l) ==
    /\ pc'[l] = "recv"
    /\ sent' = sent /\ outmsg' = outmsg
    /\ logged' = logged
    /\ pc'[Other(l)] = pc[Other(l)]
    /\ sup' = sup /\ exc' = exc /\ ws' = ws

C13_UnrecognizedTypeIsDropped ==
    [][\A l \in Loops : (Unrecognized(l) /\ pc'[l] # "try") => SilentlyDropped(l)]_vars

\* the audio loop has taken a message of another type and one without a
\* type and waits for the next; nothing was sent or logged
C13_Witness ==
    /\ sup = "gather"
    /\ wire["laptop"] = <<JsonObject([type |-> "other"]), JsonObject([data |-> "a"])>>
    /\ inq["laptop"] = <<>>
    /\ pc["audio"] = "recv" /\ logged["audio"] = "none"
    /\ \A s \in Sides : ws[s] = "open" /\ sent[s] = <<>>

(***************************************************************************)
(* C19.  Translation depends on the side a message arrives from: a         *)
(* "response.audio.delta" or "response.text.delta" message received on the *)
(* robot side, and an "audio" message received on the speech side, produce *)
(* no send on any connection and leave the loop running.                   *)
(***************************************************************************)
WrongSide(l) ==
    /\ pc[l] = "try"
    /\ IsObject(message[l])
    /\ \/ /\ l = "audio"
          /\ TypeOf(message[l]) \in {"response.audio.delta", "response.text.delta"}
       \/ l = "response" /\ TypeOf(message[l]) = "audio"

C19_OtherSidesTypesAreDropped ==
    [][\A l \in Loops : (WrongSide(l) /\ pc'[l] # "try") => SilentlyDropped(l)]_vars

\* each loop has taken a message that the other loop would have translated,
\* and waits for the next; nothing was sent
C19_Witness ==
    /\ sup = "gather"
    /\ wire["laptop"] = <<JsonObject([type |-> "response.text.delta", delta |-> "b"])>>
    /\ wire["unmute"] = <<JsonObject([type |-> "audio", data |-> "a"])>>
    /\ \A s \in Sides : inq[s] = <<>> /\ ws[s] = "open" /\ sent[s] = <<>>
    /\ \A l \in Loops : pc[l] = "recv"

(***************************************************************************)
(* C14.  Each connection has one reader and one writer: a message is taken *)
(* from the robot-side connection only by a step of the robot-to-speech    *)
(* loop and a frame is sent on it only by a step of the speech-to-robot    *)
(* loop, the reverse for the speech-side connection; such a step is a step *)
(* of that loop alone; and when a connection is opened no loop of an       *)
(* earlier session is still running to read or write beside the new ones.  *)
(***************************************************************************)
Reader(s) == IF s = "laptop" THEN "audio" ELSE "response"

Writer(s) == IF s = "laptop" THEN "response" ELSE "audio"

\* this step takes a message from connection s
ReadOn(s) == ws'[s] = ws[s] /\ Len(inq'[s]) < Len(inq[s])

\* this step sends a frame on connection s
WriteOn(s) == Len(sent'[s]) > Len(sent[s])

C14_OneReaderOneWriter ==
    [][\A s \in Sides :
          /\ ReadOn(s) =>
                /\ pc[Reader(s)] = "recv" /\ pc'[Reader(s)] = "try"
                /\ message'[Reader(s)] = Head(inq[s])
                /\ pc'[Writer(s)] = pc[Writer(s)]
                /\ sent' = sent
          /\ WriteOn(s) =>
                /\ pc[Writer(s)] = "send" /\ pc'[Writer(s)] = "recv"
                /\ sent'[s] = Append(sent[s], outmsg[Writer(s)])
                /\ pc'[Reader(s)] = pc[Reader(s)]
                /\ inq' = inq
                /\ \A t \in Sides \ {s} : sent'[t] = sent[t]
          /\ (ws'[s] = "open" /\ ws[s] # "open") => \A l \in Loops : Stopped(l)
      ]_vars

\* both loops are suspended in a send, each on the connection the other
\* reads
C14_Witness ==
    /\ sup = "gather"
    /\ \A l \in Loops : pc[l] = "send"
    /\ \A s \in Sides : ws[s] = "open"

(***************************************************************************)
(* Translated(l, in, out): loop l turns the received frame `in` into       *)
(* exactly the frame `out`: leaving its `try` body it has `out` ready and  *)
(* has sent nothing; leaving its send() with the destination open it has   *)
(* appended `out`, once, to what was sent on the destination, nothing to   *)
(* the other connection, and has let go of the message.                    *)
(***************************************************************************)
Translated(l, in, out) ==
    /\ (pc[l] = "try" /\ message[l] = in /\ pc'[l] # "try")
          => (pc'[l] = "send" /\ outmsg'[l] = out /\ sent' = sent)
    /\ (pc[l] = "send" /\ message[l] = in /\ pc'[l] # "send" /\ ws[Dest(l)] = "open")
          => /\ sent'[Dest(l)] = Append(sent[Dest(l)], out)
             /\ sent'[Source(l)] = sent[Source(l)]
             /\ pc'[l] = "recv" /\ message'[l] = None /\ outmsg'[l] = None

(***************************************************************************)
(* C15.  For every message {type: "audio", data: X} received on the robot  *)
(* side, exactly one frame is sent on the speech side while it is open:    *)
(* {type: "unmute.input_audio_buffer.append_pcm", audio: X, format:        *)
(* "int16"}.                                                               *)
(***************************************************************************)
AudioIn(X) == JsonObject([type |-> "audio", data |-> X])

AppendPcm(X) ==
    JsonObject([type |-> "unmute.input_audio_buffer.append_pcm",
                audio |-> X, format |-> "int16"])

C15_AudioBecomesAppendPcm ==
    [][\A X \in Payloads : Translated("audio", AudioIn(X), AppendPcm(X))]_vars

\* the one audio message received so far has reached the speech side
C15_Witness ==
    /\ sup = "gather"
    /\ wire["laptop"] = <<AudioIn("b")>>
    /\ sent["unmute"] = <<AppendPcm("b")>>
    /\ \A s \in Sides : ws[s] = "open"

(***************************************************************************)
(* C16.  For the messages received on the speech side the translation is   *)
(* the table's: {type: "response.audio.delta", delta: Y} yields exactly    *)
(* one robot-side frame {type: "robot.voice_audio", audio: Y}, and         *)
(* {type: "response.text.delta", delta: Z} exactly one robot-side frame    *)
(* {type: "robot.text", text: Z}, with no other fields.                    *)
(***************************************************************************)
AudioDelta(Y) == JsonObject([type |-> "response.audio.delta", delta |-> Y])

TextDelta(Z) == JsonObject([type |-> "response.text.delta", delta |-> Z])

VoiceAudio(Y) == JsonObject([type |-> "robot.voice_audio", audio |-> Y])

RobotText(Z) == JsonObject([type |-> "robot.text", text |-> Z])

C16_ResponsesBecomeRobotMessages ==
    [][\A P \in Payloads :
          /\ Translated("response", AudioDelta(P), VoiceAudio(P))
          /\ Translated("response", TextDelta(P), RobotText(P))
      ]_vars

\* a voice delta and then a text delta have reached the robot side
C16_Witness ==
    /\ sup = "gather"
    /\ wire["unmute"] = <<AudioDelta("a"), TextDelta("b")>>
    /\ sent["laptop"] = <<VoiceAudio("a"), RobotText("b")>>
    /\ \A s \in Sides : ws[s] = "open"

(***************************************************************************)
(* C18.  In every supervisor iteration the connections are established in  *)
(* a fixed order: the speech-side connect is attempted only once the       *)
(* robot-side connection is established; a failed robot-side connect leads *)
(* to the backoff without touching the speech side; the forwarding loops   *)
(* start, both at once, only when the speech-side connect succeeds after   *)
(* the robot-side one; and while the supervisor is connecting no message   *)
(* is taken from a connection and no frame is sent.                        *)
(***************************************************************************)
Connecting == sup \in {"connect_laptop", "connect_unmute"}

C18_ConnectOrder ==
    [][/\ (sup # "connect_unmute" /\ sup' = "connect_unmute")
            => (sup = "connect_laptop" /\ ws'["laptop"] = "open")
       /\ (sup = "connect_laptop" /\ sup' \notin {"connect_laptop", "connect_unmute"})
            => (sup' = "sleep" /\ ws' = ws)
       /\ (\E l \in Loops : Stopped(l) /\ pc'[l] \notin {"idle", "returned", "raised"})
            => /\ sup = "connect_unmute" /\ sup' = "gather"
               /\ ws["laptop"] # "none" /\ ws["unmute"] # "open"
               /\ ws'["unmute"] = "open"
               /\ \A l \in Loops : pc'[l] = "recv"
       /\ Connecting => \A s \in Sides : ~ReadOn(s) /\ ~WriteOn(s)
      ]_vars

\* the first robot-side connect failed: the supervisor backs off and the
\* speech side has never been contacted
C18_Witness ==
    /\ sup = "sleep"
    /\ exc = "connect_laptop_failed"
    /\ \A s \in Sides : ws[s] = "none"

(***************************************************************************)
(* C17.  Nothing is carried from one session into the next.  When a        *)
(* connection is opened, no forwarding loop of an earlier session is       *)
(* running and none holds a received message or a pending send, and the    *)
(* connection starts with nothing queued and nothing sent; and every frame *)
(* sent on a connection is the translation of the message its writer took  *)
(* last from the source connection of the same session.                    *)
(***************************************************************************)
Opens(s) == ws'[s] = "open" /\ ws[s] # "open"

C17_NothingCarriedAcrossSessions ==
    [][\A s \in Sides :
          /\ Opens(s) =>
                /\ \A l \in Loops :
                      Stopped(l) /\ message[l] = None /\ outmsg[l] = None
                /\ inq'[s] = <<>> /\ sent'[s] = <<>> /\ wire'[s] = <<>>
          /\ WriteOn(s) =>
                LET w == Writer(s) IN
                /\ InSession
                /\ Taken(w) # <<>>
                /\ message[w] = Taken(w)[Len(Taken(w))]
                /\ TryBody(w, message[w]) = DoSend(outmsg[w])
      ]_vars

\* the robot side of a new session is open and has received a frame, after
\* a session whose response loop was still running when the audio loop
\* raised; nothing has been sent on the new connection
C17_Witness ==
    /\ sup = "connect_unmute"
    /\ ws["laptop"] = "open" /\ wire["laptop"] # <<>>
    /\ ws["unmute"] = "closed"
    /\ pc["audio"] = "raised" /\ pc["response"] = "returned"
    /\ \A s \in Sides : sent[s] = <<>>

(***************************************************************************)
(* C20.  An external cancellation, in whatever state it arrives, is not    *)
(* treated as a relay failure.  The supervisor's handler does not absorb   *)
(* it: from then on the supervisor only unwinds, it never backs off,       *)
(* connects or relays again.  The per-message handlers do not absorb it:   *)
(* a cancellation that arrives while relaying leaves no forwarding loop    *)
(* running and nothing more is sent.  And when the supervisor has stopped, *)
(* no connection is open and no loop is running.                           *)
(***************************************************************************)
CancelPending == exc = "CancelledError"

C20_CancellationStopsTheBridge ==
    [][/\ (~CancelPending /\ CancelPending') =>
            /\ sup' \in {"exit_unmute", "exit_laptop", "cancelled"}
            /\ sup = "gather" => \A l \in Loops : ~Running(l)'
            /\ sent' = sent /\ ws' = ws
       /\ CancelPending =>
            /\ CancelPending'
            /\ sup' \in {"exit_unmute", "exit_laptop", "cancelled"}
            /\ sup = "cancelled" => sup' = "cancelled"
       /\ sup' = "cancelled" =>
            /\ CancelPending'
            /\ NoneOpen'
            /\ \A l \in Loops : ~Running(l)'
      ]_vars

\* the supervisor has stopped after a cancellation that found it relaying:
\* a loop was cancelled and both connections were closed by the exits
C20_Witness ==
    /\ sup = "cancelled"
    /\ \E l \in Loops : pc[l] = "cancelled"
    /\ \A s \in Sides : ws[s] = "closed"

====
